---- MODULE Spec2Model ----
(***************************************************************************)
(* Microsoft Update Connectivity Checker                                   *)
(* (src/Microsoft-Connectivity-Checker.py).                                *)
(*                                                                         *)
(* The program is a single sequential flow.  A state of the model is the   *)
(* ConnectivityChecker instance (its three flags and three counters), the  *)
(* position of the flow inside main / run_checks / check_domain (pc, named *)
(* after the source line about to execute), the locals of the running      *)
(* call, and what the call has printed.  The network is the environment:   *)
(* each DNS resolution and each TCP connect picks its outcome freely.      *)
(*                                                                         *)
(* Two entry points are modelled: main() (the command line), and direct    *)
(* use of the class (construct a checker, call run_checks on a list, maybe *)
(* again), which is how an empty list or a second run can happen.          *)
(***************************************************************************)
EXTENDS Integers, Sequences, FiniteSets, TLC

\* ---------------------------------------------------------------- bounds
\* Largest number of addresses one DNS answer carries.
MaxAddrs == 2
\* Largest number of -d domains on the command line.
MaxExtra == 1
\* Longest list handed directly to run_checks.
MaxDomains == 1
\* Cap on total_domains for a checker driven directly (stops repeated runs).
MaxTotal == 2

\* ------------------------------------------------------- program constants
DEFAULT_DOMAINS ==
    << "windowsupdate.microsoft.com", "update.microsoft.com",
       "dl.delivery.mp.microsoft.com", "sls.update.microsoft.com",
       "fe2.update.microsoft.com", "download.windowsupdate.com" >>

DEFAULT_TIMEOUT == 3

\* for port in (80, 443)
Ports == << 80, 443 >>

\* ------------------------------------------------------------ input sets
\* Values of -t tried: negative, zero, and the default.
Timeouts == { -1, 0, DEFAULT_TIMEOUT }

CustomDomains == { "custom.example" }

RECURSIVE SeqsUpTo(_, _)
SeqsUpTo(S, n) ==
    IF n = 0 THEN { << >> }
    ELSE LET shorter == SeqsUpTo(S, n - 1)
         IN  shorter \cup { Append(s, x) : s \in shorter, x \in S }

\* args.domains: None (modelled as the empty sequence) or the -d values.
ExtraLists == SeqsUpTo(CustomDomains, MaxExtra)

\* Lists handed directly to run_checks.
ApiLists == SeqsUpTo(CustomDomains, MaxDomains)

\* An answer of gethostbyname_ex: n addresses in resolution order, 0 <= n.
IpLists == { [i \in 1..n |-> i] : n \in 0..MaxAddrs }

VARIABLES
    entry,            \* "none" | "main" | "api": how the checker is driven
    args,             \* the parsed command line (main)
    domains,          \* the list run_checks iterates over
    constructed,      \* a ConnectivityChecker exists
    timeout, verbose, quiet,                      \* self.timeout, .verbose, .quiet
    total_domains, failed_domains, dns_failures,  \* the three counters
    pc,               \* source position of the flow
    idx,              \* number of domains the for loop of run_checks has taken
    success_count,    \* local of run_checks
    ip_list,          \* local of check_domain
    probes,           \* connect attempts of the current check_domain call, in order
    has_failed_port,  \* local of check_domain
    dns_outcome,      \* "none" | "ok" | "gaierror" | "error" for the current call
    out,              \* lines printed by the current check_domain call
    ret,              \* "none" | "True" | "False": return value of the current call
    entry_failed, entry_dns,  \* failed_domains, dns_failures when the call began
    run_result,       \* return value of run_checks, -1 while there is none
    exit_code,        \* return value of main, -1 while there is none
    exc,              \* "none" | "KeyboardInterrupt" | "Exception" that left run_checks
    raisedAt,         \* pc at which exc was raised
    network_used      \* a DNS resolution or a connect has been attempted

checker == << constructed, timeout, verbose, quiet >>
counters == << total_domains, failed_domains, dns_failures >>
call == << ip_list, probes, has_failed_port, dns_outcome, out, ret,
           entry_failed, entry_dns >>
raised == << exc, raisedAt >>
vars == << entry, args, domains, checker, counters, pc, idx, success_count,
           call, run_result, exit_code, raised, network_used >>

\* --------------------------------------------------------- pure helpers

\* main, lines 165-171: the two argument checks.
ArgsValid_ZeroAllowed(t, v, q) == ~(t < 0) /\ ~(v /\ q)
ArgsValid(t, v, q) == ~(t <= 0) /\ ~(v /\ q)

\* main, lines 160-162.
DomainList(extra) ==
    IF Len(extra) > 0 THEN DEFAULT_DOMAINS \o extra ELSE DEFAULT_DOMAINS

\* run_checks, lines 115-120.
ExitCode(dns, failed, total) ==
    IF dns = total THEN 2
    ELSE IF failed > 0 THEN 1
    ELSE 0

\* main, lines 183-188: the exit code of the two handlers.
MainExceptCode_AllTwo(e) == 2
MainExceptCode(e) == IF e = "KeyboardInterrupt" THEN 1 ELSE 2

\* check_domain, lines 63-65: the k-th (address, port) pair of the nested loops.
PairAt(ips, k) ==
    [ ip   |-> ips[((k - 1) \div Len(Ports)) + 1],
      port |-> Ports[((k - 1) % Len(Ports)) + 1] ]

\* check_domain, lines 63-78: both loops are exhausted.
ProbeDone_StopAtFailure(ips, log) ==
    \/ Len(log) = Len(ips) * Len(Ports)
    \/ \E i \in DOMAIN log : ~log[i].ok
ProbeDone(ips, log) == Len(log) = Len(ips) * Len(Ports)

\* check_domain, line 61 and line 74: has_failed_port after one more attempt.
MarkFailed_LastOnly(h, ok) == ~ok
MarkFailed(h, ok) == h \/ ~ok

\* check_domain, line 54.
FailedAfterDns_Forgotten(failed) == failed
FailedAfterDns(failed) == failed + 1

\* check_domain, lines 80-81.
FailedAfterProbes_Always(failed, h) == failed + 1
FailedAfterProbes(failed, h) == IF h THEN failed + 1 ELSE failed

\* check_domain, lines 87-92: is the result line printed.
ResultLineShown(q, h) == IF q THEN h ELSE TRUE

\* Positions inside run_checks, where a KeyboardInterrupt can arrive.
RunPcs == { "L98", "L103", "L48", "L51", "L53", "L54", "L55", "L63", "L84", "L107" }

\* ---------------------------------------------------------------- Init
Init ==
    /\ entry = "none"
    /\ args = [ timeout |-> DEFAULT_TIMEOUT, verbose |-> FALSE, quiet |-> FALSE,
                domains |-> << >> ]
    /\ domains = << >>
    /\ constructed = FALSE
    /\ timeout = 0 /\ verbose = FALSE /\ quiet = FALSE
    /\ total_domains = 0 /\ failed_domains = 0 /\ dns_failures = 0
    /\ pc = "start"
    /\ idx = 0
    /\ success_count = 0
    /\ ip_list = << >>
    /\ probes = << >>
    /\ has_failed_port = FALSE
    /\ dns_outcome = "none"
    /\ out = << >>
    /\ ret = "none"
    /\ entry_failed = 0 /\ entry_dns = 0
    /\ run_result = -1
    /\ exit_code = -1
    /\ exc = "none" /\ raisedAt = "none"
    /\ network_used = FALSE

\* ------------------------------------------------------------ main, class

\* main, lines 157-178: parse, build the list, validate, construct.
MainStart ==
    /\ pc = "start"
    /\ \E t \in Timeouts, v \in BOOLEAN, q \in BOOLEAN, extra \in ExtraLists :
          /\ args' = [ timeout |-> t, verbose |-> v, quiet |-> q, domains |-> extra ]
          /\ domains' = DomainList(extra)
          /\ IF ArgsValid(t, v, q)
             THEN /\ constructed' = TRUE
                  /\ timeout' = t /\ verbose' = v /\ quiet' = q
                  /\ pc' = "L98"
                  /\ UNCHANGED exit_code
             ELSE /\ exit_code' = 2
                  /\ pc' = "done"
                  /\ UNCHANGED checker
    /\ entry' = "main"
    /\ UNCHANGED << counters, idx, success_count, call, run_result, raised,
                    network_used >>

\* ConnectivityChecker.__init__, lines 38-44, called directly.
ApiConstruct ==
    /\ pc = "start"
    /\ entry' = "api"
    /\ constructed' = TRUE
    /\ timeout' = DEFAULT_TIMEOUT
    /\ \E v \in BOOLEAN, q \in BOOLEAN : verbose' = v /\ quiet' = q
    /\ total_domains' = 0 /\ failed_domains' = 0 /\ dns_failures' = 0
    /\ pc' = "idle"
    /\ UNCHANGED << args, domains, idx, success_count, call, run_result, exit_code,
                    raised, network_used >>

\* run_checks called directly, on a new or an already used checker.
ApiRun ==
    /\ entry = "api"
    /\ pc \in { "idle", "returned" }
    /\ \E list \in ApiLists :
          /\ total_domains + Len(list) <= MaxTotal
          /\ domains' = list
    /\ run_result' = -1
    /\ pc' = "L98"
    /\ UNCHANGED << entry, args, checker, counters, idx, success_count, call,
                    exit_code, raised, network_used >>

\* An exception leaves run_checks.  Under main it reaches the handlers of
\* lines 183-188; a direct caller just sees it.
Raise(e) ==
    /\ exc' = e
    /\ raisedAt' = pc
    /\ IF entry = "main"
       THEN exit_code' = MainExceptCode(e) /\ pc' = "done"
       ELSE pc' = "raised" /\ UNCHANGED exit_code

\* ------------------------------------------------------------ run_checks

\* run_checks, lines 98-102.
RunStart ==
    /\ pc = "L98"
    /\ success_count' = 0
    /\ idx' = 0
    /\ pc' = "L103"
    /\ UNCHANGED << entry, args, domains, checker, counters, call, run_result,
                    exit_code, raised, network_used >>

\* run_checks, lines 103-104: the for loop takes the next domain, or ends.
LoopNext ==
    /\ pc = "L103"
    /\ IF idx < Len(domains)
       THEN idx' = idx + 1 /\ pc' = "L48"
       ELSE pc' = "L107" /\ UNCHANGED idx
    /\ UNCHANGED << entry, args, domains, checker, counters, success_count, call,
                    run_result, exit_code, raised, network_used >>

\* run_checks, lines 107-120.
RunReturn ==
    /\ pc = "L107"
    /\ run_result' = ExitCode(dns_failures, failed_domains, total_domains)
    /\ pc' = "returned"
    /\ UNCHANGED << entry, args, domains, checker, counters, idx, success_count,
                    call, exit_code, raised, network_used >>

\* main, lines 181-182.
MainReturn ==
    /\ entry = "main"
    /\ pc = "returned"
    /\ exit_code' = run_result
    /\ pc' = "done"
    /\ UNCHANGED << entry, args, domains, checker, counters, idx, success_count,
                    call, run_result, raised, network_used >>

\* ----------------------------------------------------------- check_domain

\* check_domain, line 48.
CheckStart ==
    /\ pc = "L48"
    /\ total_domains' = total_domains + 1
    /\ ip_list' = << >>
    /\ probes' = << >>
    /\ has_failed_port' = FALSE
    /\ dns_outcome' = "none"
    /\ out' = << >>
    /\ ret' = "none"
    /\ entry_failed' = failed_domains
    /\ entry_dns' = dns_failures
    /\ pc' = "L51"
    /\ UNCHANGED << entry, args, domains, checker, failed_domains, dns_failures,
                    idx, success_count, run_result, exit_code, raised, network_used >>

\* check_domain, lines 51 and 60-61: the resolution answers.
DnsOk ==
    /\ pc = "L51"
    /\ network_used' = TRUE
    /\ \E ips \in IpLists : ip_list' = ips
    /\ dns_outcome' = "ok"
    /\ probes' = << >>
    /\ has_failed_port' = FALSE
    /\ pc' = "L63"
    /\ UNCHANGED << entry, args, domains, checker, counters, idx, success_count,
                    out, ret, entry_failed, entry_dns, run_result, exit_code, raised >>

\* check_domain, lines 51-52: the resolution raises socket.gaierror.
DnsGaierror ==
    /\ pc = "L51"
    /\ network_used' = TRUE
    /\ dns_outcome' = "gaierror"
    /\ pc' = "L53"
    /\ UNCHANGED << entry, args, domains, checker, counters, idx, success_count,
                    ip_list, probes, has_failed_port, out, ret, entry_failed,
                    entry_dns, run_result, exit_code, raised >>

\* check_domain, lines 51-52: the resolution raises an error that is not a
\* socket.gaierror (socket.herror, or UnicodeError for a name the idna codec
\* rejects).  The except clause of line 52 does not match it.
DnsOtherError ==
    /\ pc = "L51"
    /\ network_used' = TRUE
    /\ dns_outcome' = "error"
    /\ Raise("Exception")
    /\ UNCHANGED << entry, args, domains, checker, counters, idx, success_count,
                    ip_list, probes, has_failed_port, out, ret, entry_failed,
                    entry_dns, run_result >>

\* check_domain, line 53.
DnsFail53 ==
    /\ pc = "L53"
    /\ dns_failures' = dns_failures + 1
    /\ pc' = "L54"
    /\ UNCHANGED << entry, args, domains, checker, total_domains, failed_domains,
                    idx, success_count, call, run_result, exit_code, raised,
                    network_used >>

\* check_domain, line 54.
DnsFail54 ==
    /\ pc = "L54"
    /\ failed_domains' = FailedAfterDns(failed_domains)
    /\ pc' = "L55"
    /\ UNCHANGED << entry, args, domains, checker, total_domains, dns_failures,
                    idx, success_count, call, run_result, exit_code, raised,
                    network_used >>

\* check_domain, lines 55-57, and the caller's lines 104-105 for a False.
DnsFailReturn ==
    /\ pc = "L55"
    /\ out' = IF ~quiet THEN Append(out, "DNS FAIL") ELSE out
    /\ ret' = "False"
    /\ pc' = "L103"
    /\ UNCHANGED << entry, args, domains, checker, counters, idx, success_count,
                    ip_list, probes, has_failed_port, dns_outcome, entry_failed,
                    entry_dns, run_result, exit_code, raised, network_used >>

\* check_domain, lines 63-76: one connect attempt, succeeding or failing.
Probe ==
    /\ pc = "L63"
    /\ ~ProbeDone(ip_list, probes)
    /\ network_used' = TRUE
    /\ \E ok \in BOOLEAN :
          LET pair == PairAt(ip_list, Len(probes) + 1)
          IN  /\ probes' = Append(probes, [ ip |-> pair.ip, port |-> pair.port,
                                             ok |-> ok ])
              /\ has_failed_port' = MarkFailed(has_failed_port, ok)
              /\ out' = IF verbose
                        THEN Append(out, IF ok THEN "Connected" ELSE "Failed")
                        ELSE out
    /\ UNCHANGED << entry, args, domains, checker, counters, pc, idx, success_count,
                    ip_list, dns_outcome, ret, entry_failed, entry_dns, run_result,
                    exit_code, raised >>

\* check_domain, lines 80-81, once the loops are exhausted.
CountFailure ==
    /\ pc = "L63"
    /\ ProbeDone(ip_list, probes)
    /\ failed_domains' = FailedAfterProbes(failed_domains, has_failed_port)
    /\ pc' = "L84"
    /\ UNCHANGED << entry, args, domains, checker, total_domains, dns_failures,
                    idx, success_count, call, run_result, exit_code, raised,
                    network_used >>

\* check_domain, lines 84-94, and the caller's lines 104-105.
Report ==
    /\ pc = "L84"
    /\ out' = IF ResultLineShown(quiet, has_failed_port)
              THEN Append(out, IF has_failed_port THEN "[!]" ELSE "[ok]")
              ELSE out
    /\ ret' = IF has_failed_port THEN "False" ELSE "True"
    /\ success_count' = IF has_failed_port THEN success_count ELSE success_count + 1
    /\ pc' = "L103"
    /\ UNCHANGED << entry, args, domains, checker, counters, idx, ip_list, probes,
                    has_failed_port, dns_outcome, entry_failed, entry_dns,
                    run_result, exit_code, raised, network_used >>

\* A KeyboardInterrupt arrives while run_checks is running.  It is a
\* BaseException: neither line 52 nor line 72 catches it.
Interrupt ==
    /\ pc \in RunPcs
    /\ Raise("KeyboardInterrupt")
    /\ UNCHANGED << entry, args, domains, checker, counters, idx, success_count,
                    call, run_result, network_used >>

Next ==
    \/ MainStart
    \/ ApiConstruct
    \/ ApiRun
    \/ RunStart
    \/ LoopNext
    \/ RunReturn
    \/ MainReturn
    \/ CheckStart
    \/ DnsOk
    \/ DnsGaierror
    \/ DnsOtherError
    \/ DnsFail53
    \/ DnsFail54
    \/ DnsFailReturn
    \/ Probe
    \/ CountFailure
    \/ Report
    \/ Interrupt

Spec == Init /\ [][Next]_vars

\* ------------------------------------------------------------ properties

\* The current check_domain call has returned to run_checks.
CheckReturned == ret # "none"

\* Number of check_domain calls that have returned.
Completed ==
    IF total_domains = 0 THEN 0
    ELSE IF ret = "none" THEN total_domains - 1
    ELSE total_domains

\* Attempt (address a, port p): the connect of that pair was made and succeeded.
PairOk(a, p) ==
    \E i \in DOMAIN probes : probes[i] = [ ip |-> ip_list[a], port |-> p, ok |-> TRUE ]

SomeProbeFailed == \E i \in DOMAIN probes : ~probes[i].ok

\* The pairs the claims expect for n addresses: address by address, 80 then 443.
ExpectedPairs(ips) ==
    [ k \in 1..(2 * Len(ips)) |->
        [ ip |-> ips[(k + 1) \div 2], port |-> IF k % 2 = 1 THEN 80 ELSE 443 ] ]

AttemptedPairs == [ k \in DOMAIN probes |-> [ ip |-> probes[k].ip, port |-> probes[k].port ] ]

ResultLinePrinted ==
    \E i \in DOMAIN out : out[i] \in { "DNS FAIL", "[!]", "[ok]" }

\* C1: whenever run_checks has returned, its exit code obeys the exit-code law
\* on the counters: dns_failures = total_domains and total_domains > 0 gives 2;
\* failed_domains > 0 and dns_failures < total_domains gives 1;
\* failed_domains = 0 gives 0.
C1_ExitCodeLaw ==
    run_result # -1 =>
        /\ (dns_failures = total_domains /\ total_domains > 0) => run_result = 2
        /\ (failed_domains > 0 /\ dns_failures < total_domains) => run_result = 1
        /\ (failed_domains = 0) => run_result = 0

InDnsFailureHandler == pc = "L54" \/ raisedAt = "L54"

C3_FullyReachableIff ==
    CheckReturned =>
        ( ret = "True" <=>
            /\ dns_outcome = "ok"
            /\ \A a \in DOMAIN ip_list : \A p \in { 80, 443 } : PairOk(a, p) )

\* C3 witness: two addresses, the first fully open, the second with port 443
\* closed, reported not fully reachable.
C3_Witness ==
    /\ CheckReturned /\ ret = "False"
    /\ Len(ip_list) = 2 /\ Len(probes) = 4
    /\ probes[1].ok /\ probes[2].ok /\ probes[3].ok /\ ~probes[4].ok

\* The check of the current domain is over: it returned, or it raised.
CheckEnded == CheckReturned \/ exc = "Exception"

\* C4: once the check of a domain whose resolution failed is over, dns_failures
\* and failed_domains are each one more than when it began, and no connect was
\* attempted.
C4_DnsFailureCounted ==
    (dns_outcome \in { "gaierror", "error" } /\ CheckEnded) =>
        /\ dns_failures = entry_dns + 1
        /\ failed_domains = entry_failed + 1
        /\ probes = << >>

\* C5: once the check of a domain that resolved has returned, failed_domains is
\* one more than when it began if at least one connect failed (however many
\* did) and unchanged if none did, and dns_failures is unchanged.
C5_PortFailureCountedOnce ==
    (CheckReturned /\ dns_outcome = "ok") =>
        /\ failed_domains = entry_failed + (IF SomeProbeFailed THEN 1 ELSE 0)
        /\ dns_failures = entry_dns

\* C5 witness: a domain with three failed connects counted once.
C5_Witness ==
    /\ CheckReturned /\ dns_outcome = "ok"
    /\ Cardinality({ i \in DOMAIN probes : ~probes[i].ok }) = 3
    /\ failed_domains = entry_failed + 1
    /\ entry_failed > 0

\* C6: a resolution error of any kind does not abort the run: unless the run
\* was interrupted, main ends only after every domain of the list was checked,
\* with total_domains the length of the list and each resolution error counted
\* in dns_failures.
C6_DnsErrorDoesNotAbort ==
    (entry = "main" /\ pc = "done" /\ constructed /\ exc # "KeyboardInterrupt") =>
        /\ idx = Len(domains)
        /\ total_domains = Len(domains)
        /\ dns_outcome = "error" => dns_failures = entry_dns + 1

\* C7: the connects of a resolved domain are made in the order address by
\* address, 80 before 443, each pair once: what was attempted so far is always
\* an initial part of that order, and once the check has returned all 2n pairs
\* were attempted, whatever failed on the way.
C7_ProbeOrder ==
    dns_outcome = "ok" =>
        /\ Len(probes) <= 2 * Len(ip_list)
        /\ AttemptedPairs = SubSeq(ExpectedPairs(ip_list), 1, Len(probes))
        /\ CheckReturned => Len(probes) = 2 * Len(ip_list)

\* C7 witness: two addresses, the first connect failed, all four were made.
C7_Witness ==
    /\ CheckReturned /\ dns_outcome = "ok"
    /\ Len(ip_list) = 2 /\ Len(probes) = 4
    /\ ~probes[1].ok /\ probes[4].ok

\* C8 (as claimed): after an interrupt main's exit code is 1 exactly when some
\* domain had been checked before the interrupt.
C8_InterruptExitDerived ==
    (entry = "main" /\ exc = "KeyboardInterrupt") =>
        (exit_code = 1 <=> Completed > 0)

\* C8 (amended): after an interrupt during the run main has ended with exit
\* code 1, whether or not a domain had been checked, and nothing further
\* happens: no domain is checked after it.
C8_InterruptExitsOne ==
    (entry = "main" /\ exc = "KeyboardInterrupt") =>
        /\ pc = "done"
        /\ exit_code = 1
        /\ ~ENABLED Next

\* C8 witness: interrupted in the middle of the list, after two domains.
C8_Witness ==
    /\ entry = "main" /\ exc = "KeyboardInterrupt"
    /\ Completed = 2 /\ idx = 3 /\ raisedAt = "L63"
    /\ exit_code = 1

\* C9: a timeout <= 0, or verbose together with quiet, makes main return 2
\* with no checker built, no resolution, no connect, and all counters 0.
C9_InvalidArgsNoNetwork ==
    (entry = "main" /\ (args.timeout <= 0 \/ (args.verbose /\ args.quiet))) =>
        /\ pc = "done"
        /\ exit_code = 2
        /\ ~constructed
        /\ ~network_used
        /\ total_domains = 0 /\ failed_domains = 0 /\ dns_failures = 0

\* C9 witness: main ended on a timeout of 0.
C9_Witness ==
    /\ entry = "main" /\ pc = "done"
    /\ args.timeout = 0 /\ ~(args.verbose /\ args.quiet)
    /\ exit_code = 2

\* C10: in quiet mode a result line is printed for a checked domain exactly
\* when that domain has a failure (resolution failure or a failed connect).
C10_QuietPrintsExactlyFailures ==
    (constructed /\ quiet /\ CheckReturned) =>
        (ResultLinePrinted <=> ret = "False")

====
